---------------------------- MODULE Spec2Model ----------------------------
(***************************************************************************)
(* Model of src/middleware.js: the request gate of the admin panel and its *)
(* in-memory rate limiter.                                                 *)
(*                                                                         *)
(* JavaScript strings on which the code runs substring or prefix tests     *)
(* (pathname, content-type) are sequences of one-character strings, so     *)
(* that String.prototype.includes and String.prototype.startsWith are      *)
(* computed, not assumed.  Strings that are only compared or copied        *)
(* (method, role, email, id, ip, header names) are TLA+ strings.           *)
(***************************************************************************)
EXTENDS Integers, Sequences, FiniteSets, TLC

\* JavaScript null / undefined (both falsy; the code never tells them apart).
Null == "null"

\* A value the || operator of JavaScript skips.
Falsy(v) == v = Null \/ v = ""

\* a || b
Or(a, b) == IF Falsy(a) THEN b ELSE a

(***************************************************************************)
(* Configuration (middleware.js:9-12, 32).                                 *)
(*                                                                         *)
(* RATE_LIMIT_WINDOW keeps its value.  MAX_REQUESTS is 100 and the map     *)
(* limit is 1000 in the source; the model is checked with both scaled      *)
(* down, and every formula below is stated in terms of the two names, not  *)
(* of the numbers.                                                         *)
(***************************************************************************)
RATE_LIMIT_WINDOW == 60000

MAX_REQUESTS == 2

MAX_TRACKED == 2

(***************************************************************************)
(* Bounds of the model.                                                    *)
(***************************************************************************)
\* The clock advances in steps of TickMs milliseconds, TicksPerWindow of them
\* to a window.
TicksPerWindow == 2

TickMs == RATE_LIMIT_WINDOW \div TicksPerWindow

\* The clock advances at most MaxTicks times.
MaxTicks == 3

\* Direct calls of checkRateLimit in SpecRL.
MaxCalls == 5

\* Identifiers passed to the rate limiter.
Identifiers == {"a@x.io", "b@x.io", "u7", "10.0.0.9"}

(***************************************************************************)
(* String.prototype.startsWith and String.prototype.includes.              *)
(***************************************************************************)
startsWith(s, prefix) ==
    /\ Len(prefix) <= Len(s)
    /\ SubSeq(s, 1, Len(prefix)) = prefix

includes(s, sub) ==
    \E i \in 0..(Len(s) - Len(sub)) : SubSeq(s, i + 1, i + Len(sub)) = sub

\* middleware.js:40-48
PUBLIC_PATHS ==
    { <<"/">>,                                               \* "/"
      <<"/","_","n","e","x","t","/">>,                       \* "/_next/"
      <<"/","f","a","v","i","c","o","n",".","i","c","o">>,   \* "/favicon.ico"
      <<"/","r","o","b","o","t","s",".","t","x","t">>,       \* "/robots.txt"
      <<"/","s","i","t","e","m","a","p",".","x","m","l">>,   \* "/sitemap.xml"
      <<"/","i","m","a","g","e","s","/">>,                   \* "/images/"
      <<"/","a","p","i","/","a","u","t","h","/">> }          \* "/api/auth/"

\* middleware.js:51-62
SUSPICIOUS_PATHS ==
    { <<"/",".","e","n","v">>,                               \* "/.env"
      <<"/","w","p","-","a","d","m","i","n">>,               \* "/wp-admin"
      <<"/","p","h","p","M","y","A","d","m","i","n">>,       \* "/phpMyAdmin"
      <<"/",".","g","i","t">>,                               \* "/.git"
      <<"/","c","o","n","f","i","g">>,                       \* "/config"
      <<"/","b","a","c","k","u","p">>,                       \* "/backup"
      <<"/",".","a","w","s">>,                               \* "/.aws"
      <<"/","a","d","m","i","n",".","p","h","p">>,           \* "/admin.php"
      <<"/","l","o","g","i","n",".","p","h","p">>,           \* "/login.php"
      <<"/","s","h","e","l","l",".","p","h","p">> }          \* "/shell.php"

\* String literals of the handler.
API_PREFIX == <<"/","a","p","i","/">>                        \* "/api/"

ADMIN_PREFIX == <<"/","a","d","m","i","n">>                  \* "/admin"

AUTH_ROUTE == <<"/","a","p","i","/","a","u","t","h","/">>    \* "/api/auth/"

JSON_TYPE == <<"a","p","p","l","i","c","a","t","i","o","n","/","j","s","o","n">>

MULTIPART_TYPE ==
    <<"m","u","l","t","i","p","a","r","t","/","f","o","r","m","-","d","a","t","a">>

\* middleware.js:75   SUSPICIOUS_PATHS.some((path) => pathname.includes(path))
isSuspiciousPrefixOnly(pathname) ==
    \E path \in SUSPICIOUS_PATHS : startsWith(pathname, path)

isSuspicious(pathname) ==
    \E path \in SUSPICIOUS_PATHS : includes(pathname, path)

\* middleware.js:85-87  PUBLIC_PATHS.some((p) => pathname.startsWith(p))
isPublicExact(pathname) ==
    \E publicPath \in PUBLIC_PATHS : pathname = publicPath

isPublic(pathname) ==
    \E publicPath \in PUBLIC_PATHS : startsWith(pathname, publicPath)

(***************************************************************************)
(* The rate limiter (middleware.js:10-37).  requestCounts is a Map from    *)
(* identifier to an array of timestamps; a Map is a function on the set of *)
(* its keys.                                                               *)
(***************************************************************************)
EmptyMap == [k \in {} |-> <<>>]

\* requestCounts.get(identifier) || []
mapGet(rc, identifier) ==
    IF identifier \in DOMAIN rc THEN rc[identifier] ELSE <<>>

\* requestCounts.set(identifier, value)
mapSet(rc, identifier, value) ==
    [k \in DOMAIN rc \cup {identifier} |->
        IF k = identifier THEN value ELSE rc[k]]

\* middleware.js:20-22  userRequests.filter((time) => now - time < WINDOW)
recentRequestsNoFilter(userRequests, t) == userRequests

recentRequestsInclusive(userRequests, t) ==
    SelectSeq(userRequests, LAMBDA time : t - time <= RATE_LIMIT_WINDOW)

recentRequestsOf(userRequests, t) ==
    SelectSeq(userRequests, LAMBDA time : t - time < RATE_LIMIT_WINDOW)

\* middleware.js:32-34  if (requestCounts.size > 1000) requestCounts.clear()
housekeepNever(rc) == rc

housekeep(rc) ==
    IF Cardinality(DOMAIN rc) > MAX_TRACKED THEN EmptyMap ELSE rc

\* middleware.js:24  recentRequests.length >= MAX_REQUESTS
overLimitOffByOne(recentRequests) == Len(recentRequests) > MAX_REQUESTS

overLimit(recentRequests) == Len(recentRequests) >= MAX_REQUESTS

\* middleware.js:15-37: the value returned and the map left behind, for a call
\* made when Date.now() is t.
checkRateLimitClearFirst(rc, identifier, t) ==
    LET userRequests == mapGet(rc, identifier)
        recentRequests == recentRequestsOf(userRequests, t)
    IN  IF overLimit(recentRequests)
        THEN [ok |-> FALSE, requestCounts |-> rc]
        ELSE [ok |-> TRUE,
              requestCounts |->
                  mapSet(housekeep(mapSet(rc, identifier, recentRequests)),
                         identifier, Append(recentRequests, t))]

checkRateLimit(rc, identifier, t) ==
    LET userRequests == mapGet(rc, identifier)
        recentRequests == recentRequestsOf(userRequests, t)
    IN  IF overLimit(recentRequests)
        THEN [ok |-> FALSE, requestCounts |-> rc]
        ELSE [ok |-> TRUE,
              requestCounts |->
                  housekeep(mapSet(rc, identifier, Append(recentRequests, t)))]

(***************************************************************************)
(* The request gate (middleware.js:64-271).                                *)
(*                                                                         *)
(* A request is [pathname, origin, method, xff, ip, contentType]; xff is   *)
(* req.headers.get("x-forwarded-for"), Null when the header is absent;     *)
(* contentType is req.headers.get("content-type"), the empty sequence when *)
(* the header is absent or empty (line 202 treats the two alike).          *)
(*                                                                         *)
(* The Session Resolver is the external collaborator of lines 102-105      *)
(* (getAuth, auth.api.getSession, headers).  What it does when invoked is  *)
(* an input [result, user]: it throws ("throws"), or it returns null        *)
(* ("null"), a session without user ("no-user"), or a session with a user  *)
(* [role, email, id] ("session").                                          *)
(***************************************************************************)
NoHeaders == [h \in {} |-> Null]

\* response.headers.set(name, value), for several headers at once.
setHeaders(headers, more) ==
    [h \in DOMAIN headers \cup DOMAIN more |->
        IF h \in DOMAIN more THEN more[h] ELSE headers[h]]

\* new NextResponse(body, { status, headers })
newResponseDefaultStatus(status, headers, body) ==
    [kind |-> "response", status |-> 200, headers |-> headers,
     location |-> Null, body |-> body]

newResponse(status, headers, body) ==
    [kind |-> "response", status |-> status, headers |-> headers,
     location |-> Null, body |-> body]

\* NextResponse.redirect(loginUrl) with loginUrl = new URL("/", req.url) and
\* the search parameters set on it, then response.headers.set(...).
redirect(searchParams, headers) ==
    [kind |-> "redirect", status |-> 307, headers |-> headers,
     location |-> [pathname |-> <<"/">>, searchParams |-> searchParams],
     body |-> Null]

\* NextResponse.next() and the headers set on it.
next(headers) ==
    [kind |-> "next", status |-> 200, headers |-> headers,
     location |-> Null, body |-> Null]

\* middleware.js:197  ["POST", "PUT", "PATCH"].includes(req.method)
isMutation(method) == method \in {"POST", "PUT", "PATCH"}

\* middleware.js:201-205
badContentType(contentType) ==
    \/ contentType = <<>>
    \/ /\ ~includes(contentType, JSON_TYPE)
       /\ ~includes(contentType, MULTIPART_TYPE)

\* middleware.js:229-264: the forwarded response of an authenticated admin.
securedNext(req, userRole, userEmail, userId) ==
    LET api ==
            IF startsWith(req.pathname, API_PREFIX)
            THEN [h \in {"Access-Control-Allow-Origin",
                         "Access-Control-Allow-Credentials",
                         "Access-Control-Allow-Methods",
                         "Access-Control-Allow-Headers",
                         "X-Content-Type-Options", "X-Frame-Options",
                         "X-XSS-Protection", "Referrer-Policy"} |->
                    CASE h = "Access-Control-Allow-Origin" -> req.origin
                      [] h = "Access-Control-Allow-Credentials" -> "true"
                      [] h = "Access-Control-Allow-Methods" ->
                            "GET, POST, PUT, DELETE, PATCH, OPTIONS"
                      [] h = "Access-Control-Allow-Headers" ->
                            "Content-Type, Authorization"
                      [] h = "X-Content-Type-Options" -> "nosniff"
                      [] h = "X-Frame-Options" -> "DENY"
                      [] h = "X-XSS-Protection" -> "0"
                      [] OTHER -> "strict-origin-when-cross-origin"]
            ELSE NoHeaders
        admin ==
            IF \/ startsWith(req.pathname, ADMIN_PREFIX)
               \/ startsWith(req.pathname, API_PREFIX)
            THEN [h \in {"X-Admin-User", "X-User-Id", "X-User-Role",
                         "Cache-Control"} |->
                    CASE h = "X-Admin-User" -> Or(userEmail, "unknown")
                      [] h = "X-User-Id" -> Or(userId, "unknown")
                      [] h = "X-User-Role" -> userRole
                      [] OTHER ->
                            "no-store, no-cache, must-revalidate, private"]
            ELSE NoHeaders
        marker == [h \in {"X-User-Authenticated"} |-> "true"]
    IN  next(setHeaders(setHeaders(setHeaders(NoHeaders, api), admin), marker))

\* middleware.js:168-270: steps 5 to 7, reached with an admin session.
afterRoleCheck(req, userRole, userEmail, userId, ip, rc, t) ==
    LET limited == startsWith(req.pathname, API_PREFIX)
        identifier == Or(userEmail, Or(userId, ip))
        rl == IF limited THEN checkRateLimit(rc, identifier, t)
                         ELSE [ok |-> TRUE, requestCounts |-> rc]
        out(response) ==
            [response |-> response, requestCounts |-> rl.requestCounts,
             resolverCalls |-> 1, limiterCalls |-> IF limited THEN 1 ELSE 0,
             identifier |-> IF limited THEN identifier ELSE Null]
    IN  IF ~rl.ok
        THEN out(newResponse(429,
                 [h \in {"Content-Type", "X-RateLimit-Limit",
                         "X-RateLimit-Window", "Retry-After"} |->
                    CASE h = "Content-Type" -> "application/json"
                      [] h = "X-RateLimit-Limit" -> ToString(MAX_REQUESTS)
                      [] h = "X-RateLimit-Window" ->
                            ToString(RATE_LIMIT_WINDOW \div 1000)
                      [] OTHER -> "60"],
                 [success |-> FALSE,
                  message |-> "Too many requests. Please try again later."]))
        ELSE IF /\ isMutation(req.method)
                /\ badContentType(req.contentType)
                /\ ~includes(req.pathname, AUTH_ROUTE)
        THEN out(newResponse(400,
                 [h \in {"Content-Type"} |-> "application/json"],
                 [success |-> FALSE, message |-> "Invalid content type"]))
        ELSE out(securedNext(req, userRole, userEmail, userId))

\* middleware.js:64-271: the response to req, the map left behind and the
\* collaborators invoked, when the Session Resolver behaves as resolver, the
\* map is rc and Date.now() is t.
middlewareLimitFirst(req, resolver, rc, t) ==
    LET ip == Or(req.xff, Or(req.ip, "unknown"))
        rl == checkRateLimit(rc, ip, t)
    IN  [response |-> IF isSuspicious(req.pathname)
                      THEN newResponse(404, NoHeaders, Null)
                      ELSE next(NoHeaders),
         requestCounts |-> rl.requestCounts,
         resolverCalls |-> 0, limiterCalls |-> 1, identifier |-> ip]

middleware(req, resolver, rc, t) ==
    LET pathname == req.pathname
        ip == Or(req.xff, Or(req.ip, "unknown"))
        early(response, resolverCalls) ==
            [response |-> response, requestCounts |-> rc,
             resolverCalls |-> resolverCalls, limiterCalls |-> 0,
             identifier |-> Null]
    IN  IF isSuspicious(pathname)
        THEN early(newResponse(404, NoHeaders, Null), 0)
        ELSE IF isPublic(pathname)
        THEN early(next(NoHeaders), 0)
        ELSE IF resolver.result = "throws"
        THEN early(redirect([k \in {"error"} |-> "auth_error"],
                            [h \in {"X-Redirect-Reason"} |-> "auth-error"]), 1)
        ELSE IF resolver.result \in {"null", "no-user"}
        THEN early(redirect(
                      [k \in {"error", "callbackUrl"} |->
                          IF k = "error" THEN "authentication_required"
                                         ELSE pathname],
                      [h \in {"X-Redirect-Reason"} |-> "no-session"]), 1)
        ELSE LET userRole == resolver.user.role
                 userEmail == resolver.user.email
                 userId == resolver.user.id
             IN  IF userRole # "admin"
                 \* The message text is written here without its diacritics.
                 THEN early(redirect(
                          [k \in {"error", "message"} |->
                              IF k = "error"
                              THEN "unauthorized"
                              ELSE "Acces reserve aux administrateurs"],
                          [h \in {"X-Redirect-Reason"} |-> "not-admin"]), 1)
                 ELSE afterRoleCheck(req, userRole, userEmail, userId, ip,
                                     rc, t)

(***************************************************************************)
(* The requests the gate is run on.                                        *)
(***************************************************************************)
\* middleware.js:276-285: config.matcher,
\* "/((?!_next/static|_next/image|favicon.ico|robots.txt|sitemap.xml|images/).*)"
MATCHER_EXCLUDED ==
    { <<"_","n","e","x","t","/","s","t","a","t","i","c">>,
      <<"_","n","e","x","t","/","i","m","a","g","e">>,
      <<"f","a","v","i","c","o","n",".","i","c","o">>,
      <<"r","o","b","o","t","s",".","t","x","t">>,
      <<"s","i","t","e","m","a","p",".","x","m","l">>,
      <<"i","m","a","g","e","s","/">> }

matcher(pathname) ==
    /\ startsWith(pathname, <<"/">>)
    /\ ~\E x \in MATCHER_EXCLUDED : startsWith(Tail(pathname), x)

SamplePaths ==
    { <<"/">>,                                                \* /
      <<"/","a","d","m","i","n">>,                            \* /admin
      <<"/","a","d","m","i","n","/","u","s","e","r","s">>,    \* /admin/users
      <<"/","a","p","i","/","o","r","d","e","r","s">>,        \* /api/orders
      <<"/","a","p","i","/","a","u","t","h","/","s","e","s","s","i","o","n">>,
                                                              \* /api/auth/session
      <<"/","a","p","i","/",".","e","n","v">>,                \* /api/.env
      <<"/","a","d","m","i","n","/","c","o","n","f","i","g">>,
                                                              \* /admin/config
      <<"/","_","n","e","x","t","/","d","a","t","a","/","a">>,
                                                              \* /_next/data/a
      <<"/","i","m","a","g","e","s","/","a",".","p","n","g">>,
                                                              \* /images/a.png
      <<"/","d","a","s","h","b","o","a","r","d">>,            \* /dashboard
      <<"/","w","p","-","a","d","m","i","n">>,                \* /wp-admin
      <<"/","x","/",".","g","i","t","/","H","E","A","D">>,    \* /x/.git/HEAD
      <<"/","a","d","m","i","n","/","a","p","i","/","a","u","t","h","/","x">>,
                                                              \* /admin/api/auth/x
      <<"/","a","p","i">> }                                   \* /api

TEXT_PLAIN == <<"t","e","x","t","/","p","l","a","i","n">>

JSON_UTF8 ==
    JSON_TYPE \o <<";"," ","c","h","a","r","s","e","t","=","u","t","f","-","8">>

MULTIPART_BOUNDARY ==
    MULTIPART_TYPE \o <<";"," ","b","o","u","n","d","a","r","y","=","x">>

Requests ==
    [pathname : {p \in SamplePaths : matcher(p)},
     origin : {"https://admin.example"},
     method : {"GET", "POST", "PUT", "PATCH", "DELETE"},
     xff : {Null, "10.0.0.9"},
     ip : {Null, "10.0.0.7"},
     contentType : {<<>>, JSON_TYPE, JSON_UTF8, TEXT_PLAIN, MULTIPART_BOUNDARY}]

Users ==
    [role : {"admin", "user", Null},
     email : {"a@x.io", Null},
     id : {"u7", Null}]

NoUser == [role |-> Null, email |-> Null, id |-> Null]

ResolverOutcomes ==
    {[result |-> r, user |-> NoUser] : r \in {"throws", "null", "no-user"}}
      \cup {[result |-> "session", user |-> u] : u \in Users}

(***************************************************************************)
(* State.                                                                  *)
(***************************************************************************)
VARIABLES
    requestCounts,  \* the module-level Map (middleware.js:10)
    now,            \* Date.now()
    calls,          \* history: number of direct checkRateLimit calls so far
    tracked,        \* history: identifiers accepted since the last overflow
    epoch,          \* history: number of overflows of tracked so far
    accepted,       \* history: per identifier, the accepted calls [time, epoch]
    lastCall,       \* history: the last checkRateLimit call and what it saw
    resp,           \* the request just handled by middleware and its response,
                    \* until the host has sent it
    letThrough      \* history: requests of one admin to API paths that were
                    \* let through since time last passed

vars == <<requestCounts, now, calls, tracked, epoch, accepted, lastCall, resp,
          letThrough>>

NoCall == [id |-> Null, time |-> 0, ok |-> FALSE, epoch |-> 0,
           overflow |-> FALSE]

NoResp == [returned |-> FALSE]

Init ==
    /\ requestCounts = EmptyMap
    /\ now = 0
    /\ calls = 0
    /\ tracked = {}
    /\ epoch = 0
    /\ accepted = [i \in Identifiers |-> <<>>]
    /\ lastCall = NoCall
    /\ resp = NoResp
    /\ letThrough = 0

\* Time passes between two calls.
Tick ==
    /\ now + TickMs <= MaxTicks * TickMs
    /\ now' = now + TickMs
    /\ letThrough' = 0
    /\ UNCHANGED <<requestCounts, calls, tracked, epoch, accepted, lastCall, resp>>

\* One call checkRateLimit(identifier) at the current time.  The history
\* variables record what was asked and answered, not what the map holds:
\* tracked is the set of identifiers accepted since that set last outgrew
\* MAX_TRACKED, and epoch counts how often it did.
CallCheckRateLimit(identifier) ==
    LET r == checkRateLimit(requestCounts, identifier, now)
        seen == tracked \cup {identifier}
        overflow == r.ok /\ Cardinality(seen) > MAX_TRACKED
    IN  /\ calls < MaxCalls
        /\ calls' = calls + 1
        /\ requestCounts' = r.requestCounts
        /\ tracked' = IF ~r.ok THEN tracked
                      ELSE IF overflow THEN {} ELSE seen
        /\ epoch' = IF overflow THEN epoch + 1 ELSE epoch
        /\ accepted' =
              IF r.ok
              THEN [accepted EXCEPT ![identifier] =
                        Append(@, [time |-> now, epoch |-> epoch])]
              ELSE accepted
        /\ lastCall' = [id |-> identifier, time |-> now, ok |-> r.ok,
                        epoch |-> epoch, overflow |-> overflow]
        /\ UNCHANGED <<now, resp, letThrough>>

\* One request handled by middleware, from its arrival to its response.
Middleware(req, resolver) ==
    LET m == middleware(req, resolver, requestCounts, now)
    IN  /\ requestCounts' = m.requestCounts
        /\ resp' = [returned |-> TRUE, req |-> req, resolver |-> resolver,
                    response |-> m.response,
                    resolverCalls |-> m.resolverCalls,
                    limiterCalls |-> m.limiterCalls,
                    identifier |-> m.identifier,
                    before |-> requestCounts]
        /\ UNCHANGED <<now, calls, tracked, epoch, accepted, lastCall>>

\* The host sends the response middleware returned; nothing of it is kept.
Send ==
    /\ resp.returned
    /\ resp' = NoResp
    /\ UNCHANGED <<requestCounts, now, calls, tracked, epoch, accepted, lastCall,
                   letThrough>>

\* A request arrives once the previous response is out; the Session Resolver
\* may behave in any of its ways.
Handle ==
    /\ ~resp.returned
    /\ letThrough' = letThrough
    /\ \E req \in Requests, resolver \in ResolverOutcomes :
          Middleware(req, resolver)

Next == Tick \/ Handle \/ Send

\* The program: requests arrive one after the other as time passes.
Spec == Init /\ [][Next]_vars

NextRL == Tick \/ \E identifier \in Identifiers : CallCheckRateLimit(identifier)

\* The rate limiter alone, called directly.
SpecRL == Init /\ [][NextRL]_vars

(***************************************************************************)
(* Properties of the request gate, checked under Spec.                     *)
(***************************************************************************)
\* The value of a response header, Null when it is not set.
Header(h) ==
    IF h \in DOMAIN resp.response.headers THEN resp.response.headers[h]
                                          ELSE Null

\* The response is a redirect to the root path whose query carries
\* error=marker and whose X-Redirect-Reason header is reason.
RedirectedWith(marker, reason) ==
    /\ resp.response.kind = "redirect"
    /\ resp.response.location.pathname = <<"/">>
    /\ "error" \in DOMAIN resp.response.location.searchParams
    /\ resp.response.location.searchParams["error"] = marker
    /\ Header("X-Redirect-Reason") = reason

\* The terminal outcomes.
Rejected404 == resp.response.kind = "response" /\ resp.response.status = 404

RedirectedNoSession == RedirectedWith("authentication_required", "no-session")

RedirectedAuthError == RedirectedWith("auth_error", "auth-error")

RedirectedUnauthorized == RedirectedWith("unauthorized", "not-admin")

RejectedRateLimited ==
    resp.response.kind = "response" /\ resp.response.status = 429

RejectedBadContentType ==
    resp.response.kind = "response" /\ resp.response.status = 400

Forwarded == resp.response.kind = "next"

\* The path contains a deny-listed substring, anywhere.
ContainsDenyListed(p) ==
    \E d \in SUSPICIOUS_PATHS :
        \E i \in 1..Len(p) :
            /\ i + Len(d) - 1 <= Len(p)
            /\ \A j \in 1..Len(d) : p[i + j - 1] = d[j]

\* The path p lies under the prefix q.
Under(p, q) == Len(q) <= Len(p) /\ \A j \in 1..Len(q) : p[j] = q[j]

\* The path starts with one of the public allow-list prefixes.
HasPublicPrefix(p) == \E q \in PUBLIC_PATHS : Under(p, q)

\* The path is explicitly public: it is the login page "/" itself, or it
\* lies under one of the other allow-list prefixes.
ExplicitlyPublic(p) ==
    \/ p = <<"/">>
    \/ \E q \in PUBLIC_PATHS \ {<<"/">>} : Under(p, q)

\* A protected path: not deny-listed and not explicitly public, such as
\* /admin, /admin/users, /dashboard or /api/orders.
ProtectedPath(p) == ~ContainsDenyListed(p) /\ ~ExplicitlyPublic(p)

\* The Session Resolver has a session of an admin user for the request.
AdminSession ==
    resp.resolver.result = "session" /\ resp.resolver.user.role = "admin"

\* C1: a request whose path contains a deny-listed substring, anywhere in
\* the path, is answered 404 whatever the Session Resolver would say, and the
\* Session Resolver is not invoked.
C1_SuspiciousIs404 ==
    (resp.returned /\ ContainsDenyListed(resp.req.pathname)) =>
        /\ Rejected404
        /\ resp.resolverCalls = 0

\* C1 witness: an admin asked for a path with a deny-listed substring that
\* is not at its start, and got 404 without the resolver being invoked.
C1_Witness ==
    /\ resp.returned
    /\ resp.req.pathname = <<"/","x","/",".","g","i","t","/","H","E","A","D">>
    /\ AdminSession
    /\ Rejected404
    /\ resp.resolverCalls = 0

\* C2: a request to a path that is not explicitly public (such as /admin or
\* /api/orders) is forwarded only if the Session Resolver was invoked and
\* returned a session whose user has role "admin".
C2_ForwardedOnlyForAdmin ==
    (resp.returned /\ ProtectedPath(resp.req.pathname) /\ Forwarded) =>
        /\ resp.resolverCalls = 1
        /\ AdminSession

\* The headers that disclose authentication or identity.
AuthHeaders ==
    {"X-User-Authenticated", "X-Admin-User", "X-User-Id", "X-User-Role"}

\* C3: a request to a path that is not deny-listed and starts with a public
\* allow-list prefix is forwarded without the Session Resolver being invoked
\* and with none of the authentication or identity headers.
C3_PublicIsForwardedBare ==
    (/\ resp.returned
     /\ ~ContainsDenyListed(resp.req.pathname)
     /\ HasPublicPrefix(resp.req.pathname)) =>
        /\ Forwarded
        /\ resp.resolverCalls = 0
        /\ DOMAIN resp.response.headers \cap AuthHeaders = {}

\* C3 witness: a request under the auth-provider prefix by an admin was
\* forwarded bare.
C3_Witness ==
    /\ resp.returned
    /\ resp.req.pathname =
          <<"/","a","p","i","/","a","u","t","h","/","s","e","s","s","i","o","n">>
    /\ AdminSession
    /\ Forwarded
    /\ resp.resolverCalls = 0
    /\ resp.response.headers = NoHeaders

\* C4: when the Session Resolver has no session (null, or a session without
\* user), a request to a protected path is redirected to the root path with
\* error=authentication_required, callbackUrl = the request path and
\* X-Redirect-Reason: no-session.
C4_NoSessionRedirects ==
    (/\ resp.returned
     /\ ProtectedPath(resp.req.pathname)
     /\ resp.resolver.result \in {"null", "no-user"}) =>
        /\ RedirectedNoSession
        /\ "callbackUrl" \in DOMAIN resp.response.location.searchParams
        /\ resp.response.location.searchParams["callbackUrl"]
              = resp.req.pathname

\* C5: when the Session Resolver has a session whose role is not "admin"
\* (a missing role included), a request to a protected path is redirected
\* with error=unauthorized and X-Redirect-Reason: not-admin; it is not
\* forwarded, rate-limited or rejected for its content type.
C5_NonAdminRedirects ==
    (/\ resp.returned
     /\ ProtectedPath(resp.req.pathname)
     /\ resp.resolver.result = "session"
     /\ resp.resolver.user.role # "admin") =>
        /\ RedirectedUnauthorized
        /\ ~Forwarded
        /\ ~RejectedRateLimited
        /\ ~RejectedBadContentType
        /\ resp.limiterCalls = 0

\* C6: when the Session Resolver throws, a request to a protected path is
\* redirected to the root path with error=auth_error and X-Redirect-Reason:
\* auth-error, and the rate limiter is not run.
C6_ResolverFaultRedirects ==
    (/\ resp.returned
     /\ ProtectedPath(resp.req.pathname)
     /\ resp.resolver.result = "throws") =>
        /\ RedirectedAuthError
        /\ resp.limiterCalls = 0

\* The request is a POST, PUT or PATCH by an admin whose content-type is
\* missing or is neither JSON nor multipart form data.
BadMutationByAdmin ==
    /\ resp.req.method \in {"POST", "PUT", "PATCH"}
    /\ AdminSession
    /\ resp.req.contentType \in {<<>>, TEXT_PLAIN}

\* C10: such a request to an API path that is not an auth-provider path is
\* rejected with status 400; to an auth-provider path (/api/auth/...) it is
\* forwarded.
C10_BadContentTypeRejected ==
    (resp.returned /\ BadMutationByAdmin) =>
        /\ (/\ ProtectedPath(resp.req.pathname)
            /\ Under(resp.req.pathname, API_PREFIX))
           => RejectedBadContentType
        /\ (/\ ~ContainsDenyListed(resp.req.pathname)
            /\ Under(resp.req.pathname, AUTH_ROUTE))
           => Forwarded

\* The request passes the content-type check: it is no POST, PUT or PATCH, or
\* its content-type names JSON or multipart form data.
GoodContentType ==
    \/ resp.req.method \notin {"POST", "PUT", "PATCH"}
    \/ resp.req.contentType \in {JSON_TYPE, JSON_UTF8, MULTIPART_BOUNDARY}

\* C11: a request by an admin user (with an email) to a path under the admin
\* or API prefixes, such as /api/orders, that is within its quota and passes
\* the content-type check is forwarded with X-Admin-User = the user's email,
\* X-User-Id, X-User-Role, a Cache-Control no-store directive and the
\* X-User-Authenticated marker.
C11_AdminForwardedWithIdentity ==
    (/\ resp.returned
     /\ AdminSession
     /\ resp.resolver.user.email # Null
     /\ ProtectedPath(resp.req.pathname)
     /\ \/ Under(resp.req.pathname, ADMIN_PREFIX)
        \/ Under(resp.req.pathname, API_PREFIX)
     /\ resp.before = EmptyMap
     /\ GoodContentType) =>
        /\ Forwarded
        /\ Header("X-Admin-User") = resp.resolver.user.email
        /\ Header("X-User-Id") # Null
        /\ Header("X-User-Role") = "admin"
        /\ Header("Cache-Control")
              = "no-store, no-cache, must-revalidate, private"
        /\ Header("X-User-Authenticated") = "true"

\* The terminal outcomes, among the seven, that the response is.
OutcomesReached ==
    {o \in 1..7 :
        CASE o = 1 -> Rejected404
          [] o = 2 -> RedirectedNoSession
          [] o = 3 -> RedirectedAuthError
          [] o = 4 -> RedirectedUnauthorized
          [] o = 5 -> RejectedRateLimited
          [] o = 6 -> RejectedBadContentType
          [] OTHER -> Forwarded}

\* C13: every request handled, whatever the Session Resolver returns or
\* throws, ends in exactly one of the seven terminal outcomes, with the
\* Session Resolver invoked at most once and the Rate Limiter at most once.
C13_ExactlyOneOutcome ==
    resp.returned =>
        /\ Cardinality(OutcomesReached) = 1
        /\ resp.resolverCalls \in {0, 1}
        /\ resp.limiterCalls \in {0, 1}

\* C13 witness: a request whose resolver would throw has reached a terminal
\* outcome.
C13_Witness ==
    /\ resp.returned
    /\ resp.resolver.result = "throws"
    /\ Cardinality(OutcomesReached) = 1

\* The request is made by an admin to a protected path under the API prefix,
\* so that it reaches the Rate Limiter step.
AdminApiRequest ==
    /\ AdminSession
    /\ ProtectedPath(resp.req.pathname)
    /\ Under(resp.req.pathname, API_PREFIX)

\* C15: for such a request the Rate Limiter is called with the user's email
\* when present, otherwise the user id, otherwise the x-forwarded-for value,
\* otherwise "unknown".
C15_IdentifierChoice ==
    (resp.returned /\ AdminApiRequest) =>
        /\ resp.limiterCalls = 1
        /\ resp.identifier =
              Or(resp.resolver.user.email,
                 Or(resp.resolver.user.id, Or(resp.req.xff, "unknown")))

\* C16: when a request by an admin to a protected API path that is no
\* auth-provider path, with an invalid content type, has been handled, the
\* response is 429 with X-RateLimit-Limit = the cap, X-RateLimit-Window = 60
\* and Retry-After = 60 if the identifier was over quota, and otherwise it is
\* 400 and the call is recorded as the last entry of the identifier's list.
C16_RateLimitBeforeContentType ==
    [][(/\ ~resp.returned
        /\ resp'.returned
        /\ BadMutationByAdmin'
        /\ AdminApiRequest'
        /\ ~includes(resp'.req.pathname, AUTH_ROUTE)) =>
          LET identifier ==
                  Or(resp'.resolver.user.email,
                     Or(resp'.resolver.user.id,
                        Or(resp'.req.xff, Or(resp'.req.ip, "unknown"))))
              stored == mapGet(requestCounts, identifier)
          IN  IF Len(recentRequestsOf(stored, now)) >= MAX_REQUESTS
              THEN /\ RejectedRateLimited'
                   /\ Header("X-RateLimit-Limit")' = ToString(MAX_REQUESTS)
                   /\ Header("X-RateLimit-Window")' = "60"
                   /\ Header("Retry-After")' = "60"
              ELSE /\ RejectedBadContentType'
                   /\ resp'.limiterCalls = 1
                   /\ identifier \in DOMAIN requestCounts'
                   /\ requestCounts'[identifier] =
                         Append(recentRequestsOf(stored, now), now)]_vars


(***************************************************************************)
(* The gate under load: a burst of requests, with a map the rate limiter   *)
(* has already written to.  Checked under SpecLoad.                        *)
(***************************************************************************)
LoadPaths ==
    { <<"/">>,
      <<"/","a","d","m","i","n">>,
      <<"/","a","p","i","/","o","r","d","e","r","s">>,
      <<"/","a","p","i","/","a","u","t","h","/","s","e","s","s","i","o","n">>,
      <<"/","w","p","-","a","d","m","i","n">> }

LoadRequests ==
    {req \in Requests :
        /\ req.pathname \in LoadPaths
        /\ req.method \in {"GET", "POST"}
        /\ req.xff = Null
        /\ req.ip = Null
        /\ req.contentType \in {<<>>, JSON_TYPE}}

\* The admin whose requests are counted.
LoadAdmin == "a@x.io"

\* A request arrives once the previous response is out, as in Handle.
\* letThrough counts the requests of LoadAdmin to protected API paths that
\* middleware let through to the route handler.  No request is suspended at
\* the Session Resolver when the next one arrives: middleware returns at
\* line 90 before its first await.
HandleCounted ==
    /\ ~resp.returned
    /\ letThrough <= MAX_REQUESTS
    /\ \E req \in LoadRequests, resolver \in ResolverOutcomes :
          /\ Middleware(req, resolver)
          /\ letThrough' =
                IF /\ resolver.result = "session"
                   /\ resolver.user.role = "admin"
                   /\ resolver.user.email = LoadAdmin
                   /\ ProtectedPath(req.pathname)
                   /\ Under(req.pathname, API_PREFIX)
                   /\ resp'.response.kind = "next"
                THEN letThrough + 1
                ELSE letThrough

\* checkRateLimit called for LoadAdmin, as step 5 of middleware calls it.
DirectCall ==
    /\ calls <= MAX_REQUESTS
    /\ CallCheckRateLimit(LoadAdmin)

NextLoad == Tick \/ DirectCall \/ HandleCounted \/ Send

SpecLoad == Init /\ [][NextLoad]_vars

\* C17: of the requests of one identifier handled one after the other within
\* one window, with no map clear, at most MAX_REQUESTS (100) are let through.
C17_AtMostCapLetThrough == letThrough <= MAX_REQUESTS

\* The response is one of those given before step 5 is reached: 404, one of
\* the three redirects, or a request forwarded to an explicitly public path
\* or to a path that is not under the API prefix.
EndsBeforeRateLimiter ==
    \/ Rejected404
    \/ RedirectedNoSession
    \/ RedirectedAuthError
    \/ RedirectedUnauthorized
    \/ /\ Forwarded
       /\ \/ ExplicitlyPublic(resp.req.pathname)
          \/ ~Under(resp.req.pathname, API_PREFIX)

\* C18: handling a request that ends before step 5 leaves the map as it was,
\* and so does a checkRateLimit call that denies.
C18_MapUnchanged ==
    [][/\ (~resp.returned /\ resp'.returned /\ EndsBeforeRateLimiter') =>
              requestCounts' = requestCounts
       /\ (calls' = calls + 1 /\ ~lastCall'.ok) =>
              requestCounts' = requestCounts]_vars

\* C18 witness: after a denied call, a request was answered 404 and the map,
\* which holds entries, is what it was before the request.
C18_Witness ==
    /\ lastCall.id # Null
    /\ ~lastCall.ok
    /\ resp.returned
    /\ Rejected404
    /\ requestCounts # EmptyMap
    /\ requestCounts = resp.before

(***************************************************************************)
(* Properties of the rate limiter, checked under SpecRL.                   *)
(***************************************************************************)
\* The accepted calls of the identifier of the last call that came before it.
PriorAccepted ==
    LET a == accepted[lastCall.id]
    IN  IF lastCall.ok THEN SubSeq(a, 1, Len(a) - 1) ELSE a

\* The number of entries of the sequence a of accepted calls that satisfy P.
CountOf(a, P(_)) == Cardinality({j \in 1..Len(a) : P(a[j])})

\* The accepted calls of identifier i whose timestamps lie in the 60 s
\* (RATE_LIMIT_WINDOW) ending at the timestamp of its call number k.
InWindowOf(i, k) ==
    {j \in 1..k :
        accepted[i][k].time - accepted[i][j].time < RATE_LIMIT_WINDOW}

\* C7 as stated: for every identifier and every interval of 60 seconds, at
\* most MAX_REQUESTS (100) of its calls with a timestamp in the interval
\* were accepted.
C7_AtMostCapPerWindow ==
    \A i \in Identifiers : \A k \in 1..Len(accepted[i]) :
        Cardinality(InWindowOf(i, k)) <= MAX_REQUESTS

\* C7, amended: for every identifier and every interval of 60 seconds, at
\* most MAX_REQUESTS (100) of its calls with a timestamp in the interval
\* were accepted without the map being cleared between them (the set of
\* tracked identifiers did not outgrow MAX_TRACKED (1000) between them).
C7_AtMostCapPerWindowAndEpoch ==
    \A i \in Identifiers : \A k \in 1..Len(accepted[i]) :
        Cardinality({j \in InWindowOf(i, k) :
                        accepted[i][j].epoch = accepted[i][k].epoch})
            <= MAX_REQUESTS

\* C7 witness: an identifier has used its whole quota inside one window and
\* its next call, still inside the window, was denied.
C7_Witness ==
    /\ lastCall.id # Null
    /\ ~lastCall.ok
    /\ CountOf(PriorAccepted,
               LAMBDA e : /\ e.epoch = lastCall.epoch
                          /\ lastCall.time - e.time < RATE_LIMIT_WINDOW)
          = MAX_REQUESTS

\* C8: for one identifier whose map entry was not cleared in between, a call
\* that finds MAX_REQUESTS (100) accepted calls less than 60 s old is denied,
\* and a call made when every accepted call is more than 60 s old is
\* accepted again.  (With a single identifier the map is never cleared.)
C8_DeniedThenSlides ==
    lastCall.id # Null =>
        /\ CountOf(PriorAccepted,
                   LAMBDA e : /\ e.epoch = lastCall.epoch
                              /\ lastCall.time - e.time < RATE_LIMIT_WINDOW)
              >= MAX_REQUESTS
           => ~lastCall.ok
        /\ CountOf(PriorAccepted,
                   LAMBDA e : lastCall.time - e.time <= RATE_LIMIT_WINDOW) = 0
           => lastCall.ok

\* C8 witness: only one identifier has ever called, it had MAX_REQUESTS
\* accepted calls, and its call after the window has passed is accepted.
C8_Witness ==
    /\ lastCall.id # Null
    /\ \A i \in Identifiers \ {lastCall.id} : accepted[i] = <<>>
    /\ lastCall.ok
    /\ Len(PriorAccepted) = MAX_REQUESTS
    /\ \A j \in 1..Len(PriorAccepted) :
          lastCall.time - PriorAccepted[j].time > RATE_LIMIT_WINDOW

\* The identifier of the last call was blocked when the map was last
\* cleared, has not called since, and its window has not elapsed: its latest
\* accepted calls belong to an earlier epoch and MAX_REQUESTS of that epoch
\* are less than 60 s old at the time of the call.
BlockedBeforeClear ==
    /\ lastCall.id # Null
    /\ Len(PriorAccepted) > 0
    /\ LET e0 == PriorAccepted[Len(PriorAccepted)].epoch
       IN  /\ e0 < lastCall.epoch
           /\ CountOf(PriorAccepted,
                      LAMBDA e : /\ e.epoch = e0
                                 /\ lastCall.time - e.time < RATE_LIMIT_WINDOW)
                 >= MAX_REQUESTS

\* C9: the map holds exactly the identifiers accepted since their number
\* last exceeded MAX_TRACKED (1000), so it is emptied whenever that number is
\* exceeded; and an identifier that was blocked when that happened is
\* accepted on its next call although its window has not elapsed.
C9_ClearUnblocks ==
    /\ DOMAIN requestCounts = tracked
    /\ Cardinality(DOMAIN requestCounts) <= MAX_TRACKED
    /\ lastCall.overflow => requestCounts = EmptyMap
    /\ BlockedBeforeClear => lastCall.ok

\* C9 witness: a blocked identifier was accepted right after a clear.
C9_Witness == BlockedBeforeClear /\ lastCall.ok

\* The step the last call must have made from the map rc at time t when the
\* entries kept are those satisfying Keep: denied and rc untouched if
\* MAX_REQUESTS or more are kept, accepted otherwise, with t appended to the
\* kept entries of the identifier and the other identifiers untouched (or
\* with the map emptied, when the number of identifiers outgrew MAX_TRACKED).
StepAgrees(rc, t, call, rcAfter, Keep(_, _)) ==
    LET kept == SelectSeq(mapGet(rc, call.id), LAMBDA time : Keep(time, t))
    IN  /\ call.ok = (Len(kept) < MAX_REQUESTS)
        /\ ~call.ok => rcAfter = rc
        /\ (call.ok /\ call.overflow) => rcAfter = EmptyMap
        /\ (call.ok /\ ~call.overflow) =>
              /\ DOMAIN rcAfter = DOMAIN rc \cup {call.id}
              /\ rcAfter[call.id] = Append(kept, t)
              /\ \A j \in DOMAIN rc \ {call.id} : rcAfter[j] = rc[j]

\* C14 as stated: every call agrees with the reference step in which the
\* entries older than now - 60 s are dropped and an entry exactly 60 s old
\* is kept.
C14_AgreesKeepingBoundary ==
    [][calls' = calls + 1 =>
          StepAgrees(requestCounts, now, lastCall', requestCounts',
                     LAMBDA time, t : time >= t - RATE_LIMIT_WINDOW)]_vars

\* C14, amended: every call agrees with the reference step in which the
\* entries that are 60 s old or older are dropped (an entry exactly 60 s old
\* is dropped, not kept): rejected iff MAX_REQUESTS (100) or more remain,
\* otherwise now is appended to the remaining entries and the call accepted.
C14_AgreesDroppingBoundary ==
    [][calls' = calls + 1 =>
          StepAgrees(requestCounts, now, lastCall', requestCounts',
                     LAMBDA time, t : time > t - RATE_LIMIT_WINDOW)]_vars

\* C14 witness: an identifier whose MAX_REQUESTS accepted calls are exactly
\* 60 s old called, was accepted, and its list holds only the new timestamp.
C14_Witness ==
    /\ lastCall.id # Null
    /\ lastCall.ok
    /\ ~lastCall.overflow
    /\ Len(PriorAccepted) = MAX_REQUESTS
    /\ \A j \in 1..Len(PriorAccepted) :
          /\ PriorAccepted[j].epoch = lastCall.epoch
          /\ lastCall.time - PriorAccepted[j].time = RATE_LIMIT_WINDOW
    /\ lastCall.id \in DOMAIN requestCounts
    /\ requestCounts[lastCall.id] = <<lastCall.time>>

\* C19: after every call the map holds at most MAX_TRACKED (1000)
\* identifiers and every stored list at most MAX_REQUESTS (100) entries; and
\* after an accepted call that took the number of identifiers past
\* MAX_TRACKED the map is empty, the call itself not being recorded.
C19_MapBounded ==
    /\ Cardinality(DOMAIN requestCounts) <= MAX_TRACKED
    /\ \A i \in DOMAIN requestCounts : Len(requestCounts[i]) <= MAX_REQUESTS
    /\ lastCall.overflow =>
          /\ lastCall.ok
          /\ requestCounts = EmptyMap
          /\ mapGet(requestCounts, lastCall.id) = <<>>

\* C19 witness: a call by an identifier the map did not hold yet was
\* accepted when the map held MAX_TRACKED identifiers, and the map is empty.
C19_Witness ==
    /\ lastCall.overflow
    /\ lastCall.ok
    /\ Len(PriorAccepted) = 0
    /\ Cardinality(DOMAIN requestCounts) = 0

=============================================================================
